---- MODULE Spec2Model ----
(***************************************************************************)
(* Model of backend/app.py: the in-memory transaction store, its summary   *)
(* cache, and the /upload, /summary, /trends and /insight handlers.        *)
(*                                                                         *)
(* Money is counted in mills (thousandths of the currency unit), so that   *)
(* round(x, 2) is a rounding to the nearest multiple of 10 mills.  Text is *)
(* a sequence of characters, so that str.strip() does real work.  A date   *)
(* text "YYYY-MM-DD" is the record of its three numbers plus a flag that   *)
(* says whether white space surrounds it.                                  *)
(***************************************************************************)
EXTENDS Integers, Sequences, FiniteSets, TLC

VARIABLES
    transactions,   \* app.py:11  the stored list (global `transactions`)
    cache,          \* app.py:12  the dict `cache`, a set of <<key, value>> pairs
    request,        \* the request being served (Flask's `request`)
    resp,           \* the response last returned by a handler
    summaryThread,  \* position and locals of a get_summary call in flight
    uploadThread,   \* position and locals of an upload_transactions call in flight
    invalidated     \* history: the last clear_cache() discarded a cached summary
                    \* of a list other than the one just stored

vars == <<transactions, cache, request, resp, summaryThread, uploadThread, invalidated>>

\* Longest upload body of the service specifications.
MaxBatch == 2
\* Longest stored list of the analytics specification.
MaxLen == 3

SeqUpTo(S, n) == UNION {[1..k -> S] : k \in 0..n}

(***************************************************************************)
(* Values                                                                  *)
(***************************************************************************)
Fields == {"id", "amount", "category", "date"}

\* A number (or numeric text) that float() converts to v mills.
Num(v) == [num |-> TRUE, v |-> v]
\* A value float() rejects with ValueError or TypeError ("abc", null).
NotNum == [num |-> FALSE, v |-> 0]

DateText(y, m, d, pad) == [y |-> y, m |-> m, d |-> d, pad |-> pad]

Obj(keys, amount, category, date) ==
    [obj |-> TRUE, keys |-> keys, id |-> 1, amount |-> amount,
     category |-> category, date |-> date]

\* A batch element that is no JSON object (a number, null).
NonObject ==
    [obj |-> FALSE, keys |-> {}, id |-> 0, amount |-> NotNum,
     category |-> <<>>, date |-> DateText(0, 0, 0, FALSE)]

CatA == <<"A">>
CatB == <<"B">>

\* Elements of the upload bodies of the service specification: two elements
\* the loop accepts (" A" on "2025-01-05" in white space; a blank category on
\* "2025-13-01"), one for each rejection, and one that is no object.
RawPool ==
    { Obj(Fields, Num(100), <<" ", "A">>, DateText(2025, 1, 5, TRUE)),
      Obj(Fields, Num(0), <<" ">>, DateText(2025, 13, 1, FALSE)),
      Obj(Fields \ {"date"}, Num(100), CatA, DateText(2025, 1, 5, FALSE)),
      Obj(Fields, NotNum, CatA, DateText(2025, 1, 5, FALSE)),
      Obj(Fields, Num(-5), CatA, DateText(2025, 1, 5, FALSE)),
      NonObject }

List(items) == [type |-> "list", items |-> items]
\* request.get_json() results that are no list: null, and a non-empty object.
NonListBodies == {[type |-> "null", items |-> <<>>], [type |-> "object", items |-> <<>>]}

Bodies == {List(items) : items \in SeqUpTo(RawPool, MaxBatch)} \cup NonListBodies

\* Python truthiness of the parsed body (line 31, `not data`).
Truthy(data) == data.type = "object" \/ (data.type = "list" /\ Len(data.items) > 0)

(***************************************************************************)
(* str.strip()                                                             *)
(***************************************************************************)
RECURSIVE LStrip(_)
LStrip(s) == IF s # <<>> /\ Head(s) = " " THEN LStrip(Tail(s)) ELSE s

RECURSIVE RStrip(_)
RStrip(s) ==
    IF s # <<>> /\ s[Len(s)] = " " THEN RStrip(SubSeq(s, 1, Len(s) - 1)) ELSE s

\* line 65: str(txn['category']).strip()
Strip(s) == RStrip(LStrip(s))

\* line 66: str(txn['date']).strip()
StripDate(d) == [d EXCEPT !.pad = FALSE]

(***************************************************************************)
(* upload_transactions: validation (lines 29-67)                           *)
(***************************************************************************)
Reject(status, error, index) ==
    [status |-> status, error |-> error, index |-> index, txns |-> <<>>]

Accept(txns) == [status |-> 200, error |-> "", index |-> -1, txns |-> txns]

\* lines 62-67: the validated transaction
Validated(txn) ==
    [id |-> txn.id, amount |-> txn.amount.v,
     category |-> Strip(txn.category), date |-> StripDate(txn.date)]

\* lines 43-67: the loop body for the element at idx, then the rest of the loop
RECURSIVE ValidateFrom(_, _, _)
ValidateFrom(items, idx, validated_transactions) ==
    IF idx > Len(items) THEN Accept(validated_transactions)
    ELSE LET txn == items[idx] IN
         \* `key in txn` on a number or null raises TypeError: line 79 answers 500
         IF ~txn.obj THEN Reject(500, "Server error", -1)
         ELSE IF ~(Fields \subseteq txn.keys)
              THEN Reject(400, "missing required fields", idx - 1)
         ELSE IF ~txn.amount.num THEN Reject(400, "invalid amount", idx - 1)
         ELSE IF txn.amount.v < 0 THEN Reject(400, "negative amount", idx - 1)
         ELSE ValidateFrom(items, idx + 1, Append(validated_transactions, Validated(txn)))

\* lines 29-67
Validate(data) ==
    IF ~Truthy(data) \/ data.type # "list" THEN Reject(400, "Invalid data format", -1)
    ELSE IF Len(data.items) = 0 THEN Reject(400, "Empty transaction list", -1)
    ELSE ValidateFrom(data.items, 1, <<>>)

(***************************************************************************)
(* Arithmetic                                                              *)
(***************************************************************************)
\* The integer nearest to n / d (n >= 0, d > 0).  On an exact tie Python rounds
\* the binary double nearest to the quotient, which lies a little above or
\* below the tie; the model takes the even neighbour.  Every amount of the
\* pools is an even number of mills, so that no total, grand total, highest or
\* lowest value is ever on a tie; only a quotient (an average, a percentage)
\* can be.
RoundQ(n, d) ==
    LET q == n \div d
        r == n % d
    IN  IF 2 * r < d THEN q
        ELSE IF 2 * r > d THEN q + 1
        ELSE IF q % 2 = 0 THEN q ELSE q + 1

\* round(x, 2) of x mills: the nearest multiple of 10 mills
Round2(x) == 10 * RoundQ(x, 10)

\* round(n / d, 2) of a quotient of mills
Round2Div(n, d) == 10 * RoundQ(n, 10 * d)

RECURSIVE SumSeq(_)
SumSeq(s) == IF s = <<>> THEN 0 ELSE Head(s) + SumSeq(Tail(s))

RECURSIVE MaxSeq(_)
MaxSeq(s) ==
    IF Len(s) = 1 THEN s[1]
    ELSE LET m == MaxSeq(Tail(s)) IN IF s[1] >= m THEN s[1] ELSE m

RECURSIVE MinSeq(_)
MinSeq(s) ==
    IF Len(s) = 1 THEN s[1]
    ELSE LET m == MinSeq(Tail(s)) IN IF s[1] <= m THEN s[1] ELSE m

(***************************************************************************)
(* get_summary: the computation (lines 106-154)                            *)
(***************************************************************************)
\* The keys of a dict filled while iterating txns: the distinct categories in
\* first-encountered order (dicts keep insertion order).
RECURSIVE KeysInOrder(_, _)
KeysInOrder(txns, seen) ==
    IF txns = <<>> THEN seen
    ELSE IF \E i \in 1..Len(seen) : seen[i] = Head(txns).category
         THEN KeysInOrder(Tail(txns), seen)
         ELSE KeysInOrder(Tail(txns), Append(seen, Head(txns).category))

AmountsOf(txns, category) ==
    LET InCat(t) == t.category = category
        sel == SelectSeq(txns, InCat)
    IN  [i \in 1..Len(sel) |-> sel[i].amount]

\* category_data with `count = 1` where the loop has `count += 1`
CategoryDataCountOnce(txns) ==
    LET keys == KeysInOrder(txns, <<>>)
    IN  [i \in 1..Len(keys) |->
            LET amounts == AmountsOf(txns, keys[i])
            IN  [category |-> keys[i], total |-> SumSeq(amounts),
                 count |-> 1, amounts |-> amounts]]

\* lines 106-120: category_data after the loop, in insertion order
CategoryData(txns) ==
    LET keys == KeysInOrder(txns, <<>>)
    IN  [i \in 1..Len(keys) |->
            LET amounts == AmountsOf(txns, keys[i])
            IN  [category |-> keys[i], total |-> SumSeq(amounts),
                 count |-> Len(amounts), amounts |-> amounts]]

\* line 123
GrandTotal(category_data) ==
    SumSeq([i \in 1..Len(category_data) |-> category_data[i].total])

\* lines 127-143: one entry of `summary`; percentage in hundredths of a percent
SummaryRow(data, grand_total) ==
    [category |-> data.category,
     total |-> Round2(data.total),
     count |-> data.count,
     average |-> IF data.count > 0 THEN Round2Div(data.total, data.count) ELSE 0,
     percentage |-> IF grand_total > 0
                    THEN RoundQ(data.total * 10000, grand_total) ELSE 0,
     highest |-> IF data.amounts # <<>> THEN Round2(MaxSeq(data.amounts)) ELSE 0,
     lowest |-> IF data.amounts # <<>> THEN Round2(MinSeq(data.amounts)) ELSE 0]

\* An unstable descending insertion: a row goes before the rows of equal total.
InsertDescUnstable(sorted, row) ==
    LET before == {i \in 1..Len(sorted) : sorted[i].total > row.total}
        k == Cardinality(before)
    IN  SubSeq(sorted, 1, k) \o <<row>> \o SubSeq(sorted, k + 1, Len(sorted))

\* list.sort(key=total, reverse=True) is stable: a row goes after every row
\* already placed whose total is greater or equal.
InsertDesc(sorted, row) ==
    LET before == {i \in 1..Len(sorted) : sorted[i].total >= row.total}
        k == Cardinality(before)
    IN  SubSeq(sorted, 1, k) \o <<row>> \o SubSeq(sorted, k + 1, Len(sorted))

\* line 146: summary.sort(key=lambda x: x['total'], reverse=True)
RECURSIVE SortDesc(_, _)
SortDesc(rows, sorted) ==
    IF rows = <<>> THEN sorted
    ELSE SortDesc(Tail(rows), InsertDesc(sorted, Head(rows)))

\* lines 126-146: `summary` after the sort
SummaryRows(txns) ==
    LET category_data == CategoryData(txns)
        grand_total == GrandTotal(category_data)
    IN  SortDesc([i \in 1..Len(category_data) |->
                     SummaryRow(category_data[i], grand_total)], <<>>)

\* lines 148-154: `result`, from the list the loop iterated and the three later
\* readings of len(transactions) (line 152, and line 153's test and divisor)
SummaryResult(txns, len152, len153test, len153div) ==
    LET grand_total == GrandTotal(CategoryData(txns))
        summary == SummaryRows(txns)
    IN  [message |-> "",
         summary |-> summary,
         grand_total |-> Round2(grand_total),
         categories_count |-> Len(summary),
         total_transactions |-> len152,
         overall_average |-> IF len153test > 0
                             THEN Round2Div(grand_total, len153div) ELSE 0]

\* lines 96-103: the answer on an empty store
EmptySummary ==
    [message |-> "No transactions found. Please upload data first.",
     summary |-> <<>>, grand_total |-> 0, categories_count |-> 0,
     total_transactions |-> 0, overall_average |-> 0]

\* The summary of a list that stays the stored list throughout the call.
Summarize(txns) ==
    IF txns = <<>> THEN EmptySummary
    ELSE SummaryResult(txns, Len(txns), Len(txns), Len(txns))

(***************************************************************************)
(* get_trends: the computation (lines 174-195)                             *)
(***************************************************************************)
LeapYear(y) == (y % 4 = 0 /\ y % 100 # 0) \/ y % 400 = 0

DaysInMonth(y, m) ==
    IF m = 2 THEN (IF LeapYear(y) THEN 29 ELSE 28)
    ELSE IF m \in {4, 6, 9, 11} THEN 30 ELSE 31

\* line 178: datetime.strptime(text, '%Y-%m-%d') succeeds; it raises ValueError
\* on surrounding white space and on numbers that are no calendar date
ParsesAsDate(date) ==
    /\ ~date.pad
    /\ date.y \in 1..9999
    /\ date.m \in 1..12
    /\ date.d \in 1..DaysInMonth(date.y, date.m)

\* line 179: strftime('%Y-%m'), the text "YYYY-MM" as the pair of its numbers
MonthKey(date) == <<date.y, date.m>>

\* Order of two "YYYY-MM" texts: zero padded and of fixed width, they compare
\* as their numbers do, the year first.
KeyLess(a, b) == a[1] < b[1] \/ (a[1] = b[1] /\ a[2] < b[2])

RECURSIVE MonthsInOrder(_, _)
MonthsInOrder(txns, seen) ==
    IF txns = <<>> THEN seen
    ELSE IF \E i \in 1..Len(seen) : seen[i] = MonthKey(Head(txns).date)
         THEN MonthsInOrder(Tail(txns), seen)
         ELSE MonthsInOrder(Tail(txns), Append(seen, MonthKey(Head(txns).date)))

\* sorted(): an ascending insertion (the keys of a dict are distinct)
InsertAsc(sorted, key) ==
    LET k == Cardinality({i \in 1..Len(sorted) : KeyLess(sorted[i], key)})
    IN  SubSeq(sorted, 1, k) \o <<key>> \o SubSeq(sorted, k + 1, Len(sorted))

RECURSIVE SortAsc(_, _)
SortAsc(keys, sorted) ==
    IF keys = <<>> THEN sorted
    ELSE SortAsc(Tail(keys), InsertAsc(sorted, Head(keys)))

\* max(items, key=value) with the last of several greatest items winning
LastMax(items) ==
    LET best == MaxSeq([i \in 1..Len(items) |-> items[i].total])
    IN  items[CHOOSE i \in 1..Len(items) :
                /\ items[i].total = best
                /\ \A j \in (i + 1)..Len(items) : items[j].total # best]

\* max(items, key=value): Python returns the first of several greatest items
FirstMax(items) ==
    LET best == MaxSeq([i \in 1..Len(items) |-> items[i].total])
    IN  items[CHOOSE i \in 1..Len(items) :
                /\ items[i].total = best
                /\ \A j \in 1..(i - 1) : items[j].total # best]

\* min(items, key=value): the first of several least items
FirstMin(items) ==
    LET least == MinSeq([i \in 1..Len(items) |-> items[i].total])
    IN  items[CHOOSE i \in 1..Len(items) :
                /\ items[i].total = least
                /\ \A j \in 1..(i - 1) : items[j].total # least]

\* lines 188-195: the bucket of one month
MonthBucket(txns, month) ==
    LET InMonth(t) == MonthKey(t.date) = month
        data == CategoryData(SelectSeq(txns, InMonth))
        total == GrandTotal(data)
        count == SumSeq([i \in 1..Len(data) |-> data[i].count])
    IN  [month |-> month,
         total |-> Round2(total),
         count |-> count,
         average |-> Round2Div(total, count),
         top_category |-> FirstMax(data).category,
         categories |-> [i \in 1..Len(data) |->
                            [category |-> data[i].category,
                             total |-> Round2(data[i].total)]]]

\* lines 175-195: monthly_trends
MonthlyTrends(txns) ==
    LET months == SortAsc(MonthsInOrder(txns, <<>>), <<>>)
    IN  [i \in 1..Len(months) |-> MonthBucket(txns, months[i])]

(***************************************************************************)
(* get_insights: the computation (lines 249-292)                           *)
(***************************************************************************)
Insight(kind, category, amount, pct, count) ==
    [kind |-> kind, category |-> category, amount |-> amount, pct |-> pct,
     count |-> count]

\* line 288: txn['amount'] > avg_transaction * 2, with avg = total_amount / n
HighValue(txn, total_amount, n) == txn.amount * n > 2 * total_amount

\* line 262 divides by the sum of the category totals
InsightsRaise(txns) == SumSeq([i \in 1..Len(txns) |-> txns[i].amount]) = 0

\* lines 249-292, for a non-empty list whose amounts do not sum to 0;
\* pct in tenths of a percent
Insights(txns) ==
    LET data == CategoryData(txns)
        counts == [i \in 1..Len(data) |->
                      [category |-> data[i].category, total |-> data[i].count]]
        n == Len(txns)
        total_amount == SumSeq([i \in 1..n |-> txns[i].amount])
        max_category == FirstMax(data)
        most_frequent == FirstMax(counts)
        min_category == FirstMin(data)
        IsHigh(t) == HighValue(t, total_amount, n)
        high_value_txns == SelectSeq(txns, IsHigh)
    IN  (IF Len(data) > 0
         THEN <<Insight("highest", max_category.category, Round2(max_category.total),
                        RoundQ(max_category.total * 1000, GrandTotal(data)), 0)>>
         ELSE <<>>)
        \o <<Insight("average", <<>>, Round2Div(total_amount, n), 0, n)>>
        \o <<Insight("most_frequent", most_frequent.category, 0, 0,
                     most_frequent.total)>>
        \o (IF Len(data) > 1
            THEN <<Insight("lowest", min_category.category,
                           Round2(min_category.total), 0, 0)>>
            ELSE <<>>)
        \o (IF high_value_txns # <<>>
            THEN <<Insight("high_value", <<>>, Round2Div(2 * total_amount, n), 0,
                           Len(high_value_txns))>>
            ELSE <<>>)

(***************************************************************************)
(* Store, requests and responses                                           *)
(***************************************************************************)
\* clear_cache() that leaves the dict as it is
keep_cache(c) == c

\* line 17: cache = {}
clear_cache(c) == {}

\* line 92: 'summary' in cache
HasSummary(c) == \E e \in c : e[1] = "summary"

\* line 93: cache['summary']
CachedSummary(c) == (CHOOSE e \in c : e[1] = "summary")[2]

\* line 157: cache['summary'] = result
CachePut(c, result) == {e \in c : e[1] # "summary"} \cup {<<"summary", result>>}

NoBody == [type |-> "none", items |-> <<>>]

Request(op, body) == [op |-> op, body |-> body]

\* A response: the status and the fields of the JSON body the handlers set.
Response(op, status) ==
    [op |-> op, status |-> status, error |-> "", index |-> -1, count |-> 0,
     categories |-> {}, summary |-> [EmptySummary EXCEPT !.message = ""],
     trends |-> <<>>, insights |-> <<>>]

\* lines 32-59 and 80: an error answer of /upload
UploadError(v) ==
    [Response("upload", v.status) EXCEPT !.error = v.error, !.index = v.index]

\* lines 73-77: count and categories are read from the global list
UploadOk(stored) ==
    [Response("upload", 200) EXCEPT
        !.count = Len(stored),
        !.categories = {stored[i].category : i \in 1..Len(stored)}]

\* lines 93, 96-103 and 159
SummaryResponse(result) == [Response("summary", 200) EXCEPT !.summary = result]

\* lines 168-200; an unparseable stored date raises ValueError at line 178,
\* which Flask answers with status 500
TrendsResponse(txns) ==
    IF txns = <<>> THEN Response("trends", 200)
    ELSE IF \E i \in 1..Len(txns) : ~ParsesAsDate(txns[i].date)
         THEN [Response("trends", 500) EXCEPT !.error = "ValueError"]
    ELSE [Response("trends", 200) EXCEPT
             !.trends = MonthlyTrends(txns), !.count = Len(MonthlyTrends(txns))]

\* lines 244-294; ZeroDivisionError at line 262 is answered with status 500
InsightResponse(txns) ==
    IF txns = <<>>
    THEN [Response("insight", 200) EXCEPT
             !.insights = <<Insight("no_transactions", <<>>, 0, 0, 0)>>]
    ELSE IF InsightsRaise(txns)
         THEN [Response("insight", 500) EXCEPT !.error = "ZeroDivisionError"]
    ELSE [Response("insight", 200) EXCEPT !.insights = Insights(txns)]

IdleSummary == [pc |-> "idle", txns |-> <<>>, len152 |-> 0, len153test |-> 0]
IdleUpload == [pc |-> "idle", validated |-> <<>>]

\* lines 11-12: the state of a fresh process
Init ==
    /\ transactions = <<>>
    /\ cache = {}
    /\ request = Request("none", NoBody)
    /\ resp = Response("none", 0)
    /\ summaryThread = IdleSummary
    /\ uploadThread = IdleUpload
    /\ invalidated = FALSE

(***************************************************************************)
(* The handlers, one request at a time                                     *)
(***************************************************************************)
\* POST /upload (lines 20-80)
Upload(data) ==
    LET v == Validate(data)
    IN  /\ request' = Request("upload", data)
        /\ IF v.status = 200
           THEN /\ transactions' = v.txns
                /\ cache' = clear_cache(cache)
                /\ resp' = UploadOk(v.txns)
                /\ invalidated' = (HasSummary(cache) /\ transactions # v.txns)
           ELSE /\ resp' = UploadError(v)
                /\ UNCHANGED <<transactions, cache, invalidated>>
        /\ UNCHANGED <<summaryThread, uploadThread>>

\* GET /summary (lines 84-159)
GetSummary ==
    /\ request' = Request("summary", NoBody)
    /\ IF HasSummary(cache)
       THEN /\ resp' = SummaryResponse(CachedSummary(cache))
            /\ UNCHANGED cache
       ELSE IF transactions = <<>>
            THEN /\ resp' = SummaryResponse(EmptySummary)
                 /\ UNCHANGED cache
       ELSE LET result == SummaryResult(transactions, Len(transactions),
                                        Len(transactions), Len(transactions))
            IN  /\ cache' = CachePut(cache, result)
                /\ resp' = SummaryResponse(result)
    /\ UNCHANGED <<transactions, summaryThread, uploadThread, invalidated>>

\* GET /trends (lines 163-200)
GetTrends ==
    /\ request' = Request("trends", NoBody)
    /\ resp' = TrendsResponse(transactions)
    /\ UNCHANGED <<transactions, cache, summaryThread, uploadThread, invalidated>>

\* GET /insight (lines 239-294)
GetInsights ==
    /\ request' = Request("insight", NoBody)
    /\ resp' = InsightResponse(transactions)
    /\ UNCHANGED <<transactions, cache, summaryThread, uploadThread, invalidated>>

Next ==
    \/ \E data \in Bodies : Upload(data)
    \/ GetSummary
    \/ GetTrends
    \/ GetInsights

Spec == Init /\ [][Next]_vars

(***************************************************************************)
(* The analytics alone: every list the validator accepts, then the queries *)
(***************************************************************************)
AggAmounts == {0, 4, 100}
AggCategories == {CatA, CatB}
AggDates == {DateText(2025, 1, 5, FALSE), DateText(2024, 12, 31, FALSE)}

AggPool ==
    {Obj(Fields, Num(a), c, d) : a \in AggAmounts, c \in AggCategories, d \in AggDates}

\* The state right after a first, accepted upload.
InitAgg ==
    \E items \in SeqUpTo(AggPool, MaxLen) \ {<<>>} :
        LET v == Validate(List(items))
        IN  /\ v.status = 200
            /\ transactions = v.txns
            /\ cache = clear_cache({})
            /\ request = Request("upload", List(items))
            /\ resp = UploadOk(v.txns)
            /\ summaryThread = IdleSummary
            /\ uploadThread = IdleUpload
            /\ invalidated = FALSE

NextAgg ==
    \/ GetSummary
    \/ GetTrends
    \/ GetInsights

SpecAgg == InitAgg /\ [][NextAgg]_vars

(***************************************************************************)
(* The handlers interleaved: Flask's development server (line 319) serves  *)
(* each request on its own thread.  A step is one reading or writing of a  *)
(* global name; what a handler computes in between is local to it.         *)
(***************************************************************************)
\* line 92 of a /summary call
SummaryBegin ==
    /\ summaryThread.pc = "idle"
    /\ request' = Request("summary", NoBody)
    /\ summaryThread' =
         [IdleSummary EXCEPT !.pc = IF HasSummary(cache) THEN "l93" ELSE "l95"]
    /\ UNCHANGED <<transactions, cache, resp, uploadThread, invalidated>>

\* line 93: cache is read again; a cache replaced meanwhile raises KeyError
SummaryHit ==
    /\ summaryThread.pc = "l93"
    /\ resp' = IF HasSummary(cache) THEN SummaryResponse(CachedSummary(cache))
               ELSE [Response("summary", 500) EXCEPT !.error = "KeyError"]
    /\ summaryThread' = IdleSummary
    /\ UNCHANGED <<transactions, cache, request, uploadThread, invalidated>>

\* lines 95-103
SummaryTestEmpty ==
    /\ summaryThread.pc = "l95"
    /\ IF transactions = <<>>
       THEN /\ resp' = SummaryResponse(EmptySummary)
            /\ summaryThread' = IdleSummary
       ELSE /\ summaryThread' = [summaryThread EXCEPT !.pc = "l112"]
            /\ UNCHANGED resp
    /\ UNCHANGED <<transactions, cache, request, uploadThread, invalidated>>

\* line 112: the loop iterates the list that is stored now
SummaryIterate ==
    /\ summaryThread.pc = "l112"
    /\ summaryThread' = [summaryThread EXCEPT !.pc = "l152", !.txns = transactions]
    /\ UNCHANGED <<transactions, cache, request, resp, uploadThread, invalidated>>

\* line 152: len(transactions)
SummaryLen152 ==
    /\ summaryThread.pc = "l152"
    /\ summaryThread' =
         [summaryThread EXCEPT !.pc = "l153", !.len152 = Len(transactions)]
    /\ UNCHANGED <<transactions, cache, request, resp, uploadThread, invalidated>>

\* line 153: the test len(transactions) > 0
SummaryLen153 ==
    /\ summaryThread.pc = "l153"
    /\ summaryThread' =
         [summaryThread EXCEPT !.pc = "l157", !.len153test = Len(transactions)]
    /\ UNCHANGED <<transactions, cache, request, resp, uploadThread, invalidated>>

\* line 153's divisor len(transactions), then lines 157-159: the result is put
\* into the dict that `cache` names now, and returned
SummaryStore ==
    /\ summaryThread.pc = "l157"
    /\ LET result == SummaryResult(summaryThread.txns, summaryThread.len152,
                                   summaryThread.len153test, Len(transactions))
       IN  /\ cache' = CachePut(cache, result)
           /\ resp' = SummaryResponse(result)
    /\ summaryThread' = [summaryThread EXCEPT !.pc = "idle"]
    /\ UNCHANGED <<transactions, request, uploadThread, invalidated>>

\* lines 29-67 of an /upload call: the body is validated into a local list
UploadBegin(data) ==
    LET v == Validate(data)
    IN  /\ uploadThread.pc = "idle"
        /\ request' = Request("upload", data)
        /\ IF v.status = 200
           THEN /\ uploadThread' = [pc |-> "l70", validated |-> v.txns]
                /\ UNCHANGED resp
           ELSE /\ resp' = UploadError(v)
                /\ UNCHANGED uploadThread
        /\ UNCHANGED <<transactions, cache, summaryThread, invalidated>>

\* line 70: transactions = validated_transactions
UploadSwap ==
    /\ uploadThread.pc = "l70"
    /\ transactions' = uploadThread.validated
    /\ uploadThread' = [uploadThread EXCEPT !.pc = "l71"]
    /\ invalidated' = (HasSummary(cache) /\ transactions # uploadThread.validated)
    /\ UNCHANGED <<cache, request, resp, summaryThread>>

\* line 71: clear_cache()
UploadClear ==
    /\ uploadThread.pc = "l71"
    /\ cache' = clear_cache(cache)
    /\ uploadThread' = [uploadThread EXCEPT !.pc = "l73"]
    /\ UNCHANGED <<transactions, request, resp, summaryThread, invalidated>>

\* lines 73-77
UploadReturn ==
    /\ uploadThread.pc = "l73"
    /\ resp' = UploadOk(transactions)
    /\ uploadThread' = IdleUpload
    /\ UNCHANGED <<transactions, cache, request, summaryThread, invalidated>>

\* Upload bodies of the interleaved handlers: lists of two well-formed
\* elements, and the empty list, which is rejected.
ConcPool ==
    { Obj(Fields, Num(100), CatA, DateText(2025, 1, 5, FALSE)),
      Obj(Fields, Num(4), CatB, DateText(2024, 12, 31, FALSE)) }

ConcBodies == {List(items) : items \in SeqUpTo(ConcPool, MaxBatch)}

NextConc ==
    \/ \E data \in ConcBodies : UploadBegin(data)
    \/ UploadSwap
    \/ UploadClear
    \/ UploadReturn
    \/ SummaryBegin
    \/ SummaryHit
    \/ SummaryTestEmpty
    \/ SummaryIterate
    \/ SummaryLen152
    \/ SummaryLen153
    \/ SummaryStore

SpecConc == Init /\ [][NextConc]_vars

(***************************************************************************)
(* Claims                                                                  *)
(***************************************************************************)
Idle == summaryThread.pc = "idle" /\ uploadThread.pc = "idle"

DistinctCategories(txns) == {txns[i].category : i \in 1..Len(txns)}

\* Index of the first transaction of a category in a list.
FirstIndex(txns, category) ==
    CHOOSE i \in 1..Len(txns) :
        /\ txns[i].category = category
        /\ \A j \in 1..(i - 1) : txns[j].category # category

\* C1: with one request served at a time, a GET /summary answers with the
\* summary of the list stored by the last successful upload, never with a
\* summary cached from an earlier batch, whatever was cached before the upload.
C1_SummaryOfCurrentBatch ==
    request.op = "summary" =>
        resp.status = 200 /\ resp.summary = Summarize(transactions)

\* A /summary answered after an upload that discarded the cached summary of
\* another list.
C1_Witness ==
    /\ request.op = "summary"
    /\ invalidated
    /\ transactions # <<>>
    /\ resp.summary = Summarize(transactions)

\* A batch element breaks a validation rule: a required field is missing (an
\* element that is no object has none), or the amount is no number or negative.
FailsRule(txn) ==
    \/ ~(Fields \subseteq txn.keys)
    \/ ~txn.amount.num
    \/ txn.amount.v < 0

FirstFailing(items) ==
    CHOOSE i \in 1..Len(items) :
        FailsRule(items[i]) /\ \A j \in 1..(i - 1) : ~FailsRule(items[j])

\* C2: an upload whose batch holds a record that fails a rule is answered with
\* status 400 naming the index of the first failing record, and leaves the
\* stored list and the cache as they were.
C2_AllOrNothing ==
    [][(/\ request'.op = "upload"
        /\ request'.body.type = "list"
        /\ \E i \in 1..Len(request'.body.items) : FailsRule(request'.body.items[i]))
       => (/\ resp'.status = 400
           /\ resp'.index = FirstFailing(request'.body.items) - 1
           /\ UNCHANGED <<transactions, cache>>)]_vars

\* C3: an upload of the empty JSON array is answered with status 400 and the
\* 'Empty transaction list' error, not the 'Invalid data format' error of a
\* body that is no list.
C3_EmptyBatchReason ==
    (request.op = "upload" /\ request.body.type = "list"
        /\ Len(request.body.items) = 0)
    => (resp.status = 400 /\ resp.error = "Empty transaction list")

InsightKinds == [i \in 1..Len(resp.insights) |-> resp.insights[i].kind]

ExpectedInsightKinds(txns) ==
    LET n == Len(txns)
        total == SumSeq([i \in 1..n |-> txns[i].amount])
    IN  <<"highest", "average", "most_frequent">>
        \o (IF Cardinality(DistinctCategories(txns)) > 1 THEN <<"lowest">> ELSE <<>>)
        \o (IF \E i \in 1..n : txns[i].amount * n > 2 * total
            THEN <<"high_value">> ELSE <<>>)

\* C4: for every non-empty stored list the validator accepts (amounts >= 0,
\* all 0 included), GET /insight succeeds and lists the highest-spend, average
\* and most-frequent insights in this order, then the lowest-spend insight iff
\* there is more than one category, then the high-value insight iff some
\* amount exceeds twice the overall average.
C4_InsightsAlwaysPresent ==
    (request.op = "insight" /\ transactions # <<>>)
    => (resp.status = 200 /\ InsightKinds = ExpectedInsightKinds(transactions))

WellFormed(txn) ==
    /\ txn.amount >= 0
    /\ txn.category # <<>>
    /\ txn.category = Strip(txn.category)
    /\ ParsesAsDate(txn.date)

\* C5: every stored transaction has amount >= 0, a non-empty trimmed category
\* and a date that is a calendar date in YYYY-MM-DD form, so that GET /trends
\* never fails on a stored date.
C5_StoredTransactionsWellFormed ==
    /\ \A i \in 1..Len(transactions) : WellFormed(transactions[i])
    /\ request.op = "trends" => resp.status = 200

SumOfTotals(rows) == SumSeq([i \in 1..Len(rows) |-> rows[i].total])
SumOfCounts(rows) == SumSeq([i \in 1..Len(rows) |-> rows[i].count])

Abs(x) == IF x < 0 THEN -x ELSE x

\* C6 as stated: for a non-empty stored list the per-category totals of the
\* /summary result add up to grand_total exactly, the per-category counts add
\* up to total_transactions, and categories_count is the number of distinct
\* category labels.
C6_TotalsAddUpExactly ==
    (request.op = "summary" /\ transactions # <<>>)
    => (/\ SumOfTotals(resp.summary.summary) = resp.summary.grand_total
        /\ SumOfCounts(resp.summary.summary) = resp.summary.total_transactions
        /\ resp.summary.categories_count
             = Cardinality(DistinctCategories(transactions)))

\* C6 amended: the per-category totals add up to grand_total within the
\* rounding tolerance, half a cent (5 mills) for each rounded total and for
\* grand_total; the counts and categories_count are exact.
C6_TotalsAddUpWithinRounding ==
    (request.op = "summary" /\ transactions # <<>>)
    => (/\ Abs(SumOfTotals(resp.summary.summary) - resp.summary.grand_total)
             <= 5 * (resp.summary.categories_count + 1)
        /\ SumOfCounts(resp.summary.summary) = resp.summary.total_transactions
        /\ resp.summary.categories_count
             = Cardinality(DistinctCategories(transactions)))

\* A summary of several categories whose rounded totals do not add up to the
\* rounded grand total.
C6_Witness ==
    /\ request.op = "summary"
    /\ resp.summary.categories_count > 1
    /\ SumOfTotals(resp.summary.summary) # resp.summary.grand_total

\* C7: the category entries of a /summary result are in descending order of
\* `total`, and entries of equal total are in the order in which their
\* categories first occur in the stored list.
C7_SortedDescendingStable ==
    request.op = "summary" =>
        LET rows == resp.summary.summary
        IN  \A i, j \in 1..Len(rows) :
              i < j =>
                /\ rows[i].total >= rows[j].total
                /\ rows[i].total = rows[j].total =>
                     FirstIndex(transactions, rows[i].category)
                       < FirstIndex(transactions, rows[j].category)

\* A summary of two categories of equal total, CatB met first and listed first.
C7_Witness ==
    /\ request.op = "summary"
    /\ Len(resp.summary.summary) = 2
    /\ resp.summary.summary[1].total = resp.summary.summary[2].total
    /\ resp.summary.summary[1].total > 0
    /\ resp.summary.summary[1].category = CatB

TxnsOfMonth(txns, month) ==
    LET InMonth(t) == MonthKey(t.date) = month IN SelectSeq(txns, InMonth)

SubTotal(txns, category) ==
    LET InCat(t) == t.category = category
        sel == SelectSeq(txns, InCat)
    IN  SumSeq([i \in 1..Len(sel) |-> sel[i].amount])

\* The category of the largest sub-total of a list, the first one met winning.
TopCategory(txns) ==
    CHOOSE c \in DistinctCategories(txns) :
        \A other \in DistinctCategories(txns) \ {c} :
            \/ SubTotal(txns, c) > SubTotal(txns, other)
            \/ /\ SubTotal(txns, c) = SubTotal(txns, other)
               /\ FirstIndex(txns, c) < FirstIndex(txns, other)

\* C8: for a non-empty stored list of well-formed dates, /trends returns one
\* bucket per distinct month of the stored dates, in strictly ascending order
\* of the month key; each bucket counts the transactions of its month, so the
\* counts add up to the number of transactions; top_category is the category
\* of the largest sub-total in the bucket, the first one met winning a tie.
C8_MonthlyBuckets ==
    (request.op = "trends" /\ transactions # <<>>
        /\ \A i \in 1..Len(transactions) : ParsesAsDate(transactions[i].date))
    => LET buckets == resp.trends
       IN  /\ resp.status = 200
           /\ {buckets[i].month : i \in 1..Len(buckets)}
                = {MonthKey(transactions[i].date) : i \in 1..Len(transactions)}
           /\ \A i \in 1..(Len(buckets) - 1) :
                KeyLess(buckets[i].month, buckets[i + 1].month)
           /\ SumSeq([i \in 1..Len(buckets) |-> buckets[i].count])
                = Len(transactions)
           /\ \A i \in 1..Len(buckets) :
                LET mine == TxnsOfMonth(transactions, buckets[i].month)
                IN  /\ buckets[i].count = Len(mine)
                    /\ buckets[i].top_category = TopCategory(mine)

\* Trends of two months, the later month met first in the list, with a bucket
\* in which two categories tie for the largest sub-total.
C8_Witness ==
    /\ request.op = "trends"
    /\ Len(resp.trends) = 2
    /\ MonthKey(transactions[1].date) = resp.trends[2].month
    /\ \E i \in 1..2 :
         /\ Len(resp.trends[i].categories) = 2
         /\ LET mine == TxnsOfMonth(transactions, resp.trends[i].month)
            IN  SubTotal(mine, CatA) = SubTotal(mine, CatB)

\* C9: when /summary and /upload calls interleave, once no request is in
\* flight the cache holds no summary or the summary of the stored list.
C9_CacheFreshWhenIdle ==
    Idle => (~HasSummary(cache) \/ CachedSummary(cache) = Summarize(transactions))

\* C10: a /summary call that computes its answer while an upload runs answers
\* (and caches) the summary of one single list, the one its loop iterated:
\* total_transactions and overall_average come from that same list.
C10_SummaryOfOneList ==
    (resp.op = "summary" /\ resp.status = 200
        /\ summaryThread.pc = "idle" /\ summaryThread.txns # <<>>)
    => resp.summary = Summarize(summaryThread.txns)

====
